---- MODULE Spec2Model ----
(***************************************************************************)
(* The savings allocation engine of app/services/optimization_service.py:  *)
(* one call of optimize_savings(input_data, accounts), step by step.       *)
(*                                                                         *)
(* Money is an integer number of ticks of 0.002 pound (5 ticks = 1 penny), *)
(* so that amounts below a penny exist and round(amount, 2) is a real      *)
(* rounding, never exactly half way.  Interest rates are whole percents,   *)
(* tax rates are twentieths.  Interest is kept in tick-percents            *)
(* (1 tick-percent = 0.00002 pound) and, where tax has been applied, in    *)
(* millionths of a pound (1 tick-percent = 20 millionths).                 *)
(***************************************************************************)
EXTENDS Integers, Sequences, FiniteSets, TLC

VARIABLES
    input_data,                 \* OptimizationInput
    accounts,                   \* List[Account], the catalog
    pc,                         \* position inside optimize_savings
    tax_info,                   \* line 56
    starting_rate_for_savings,  \* line 59
    total_tax_free_allowance,   \* line 60
    isa_allowance_remaining,    \* line 61
    eligible_accounts,          \* line 71
    model,                      \* the Pyomo ConcreteModel, <<>> until built
    results,                    \* solver results, <<>> until the solver ran
    investments,                \* line 151
    total_gross_return,         \* line 152, tick-percents
    result,                     \* the returned OptimizationResult, <<>> until returned
    raised,                     \* the exception that left the call, "" if none
    response,                   \* what POST /optimize answers, <<>> until it does
    records                     \* the rows of optimization_records

vars == << input_data, accounts, pc, tax_info, starting_rate_for_savings,
           total_tax_free_allowance, isa_allowance_remaining, eligible_accounts,
           model, results, investments, total_gross_return, result, raised,
           response, records >>

(***************************************************************************)
(* Units and Python values.                                                *)
(***************************************************************************)
TicksPerPenny == 4 + 1
TicksPerPound == TicksPerPenny * 100
Pounds(n) == n * TicksPerPound
\* 1 tick-percent of interest, taxed in twentieths, in millionths of a pound
TaxDen == 4 * 5
PercentDen == 10 * 10

\* Optional[...]: <<>> is None, <<v>> is the value v
None == << >>
Some(v) == << v >>
\* float('inf') as a max_investment
Inf == 0 - 1

Max2(a, b) == IF a >= b THEN a ELSE b
Min2(a, b) == IF a <= b THEN a ELSE b

RECURSIVE SumSeq(_)
SumSeq(s) == IF s = << >> THEN 0 ELSE Head(s) + SumSeq(Tail(s))

RECURSIVE MaxSeq(_)
MaxSeq(s) == IF Len(s) = 1 THEN s[1] ELSE Max2(Head(s), MaxSeq(Tail(s)))

RECURSIVE Gcd(_, _)
Gcd(a, b) == IF b = 0 THEN a ELSE Gcd(b, a % b)

\* the members of a set of integers in increasing order: sorted(list(set(...)))
RECURSIVE Sorted(_)
Sorted(S) ==
    IF S = {} THEN << >>
    ELSE LET m == CHOOSE v \in S : \A w \in S : v <= w
         IN  << m >> \o Sorted(S \ {m})

\* round(num / den) to the nearest integer, halves to the even one: Python's round()
RoundHalfEven(num, den) ==
    LET q == num \div den
        r == num % den
    IN  IF 2 * r < den THEN q
        ELSE IF 2 * r > den THEN q + 1
        ELSE IF q % 2 = 0 THEN q ELSE q + 1

\* round(a * m / den) for a, m >= 0, without forming a * m
MulDivRound(a, m, den) ==
    LET q == a \div den
        r == a % den
        w == (r * m) \div den
        f == (r * m) % den
        n == q * m + w
    IN  IF 2 * f < den THEN n
        ELSE IF 2 * f > den THEN n + 1
        ELSE IF n % 2 = 0 THEN n ELSE n + 1

(***************************************************************************)
(* Tax policy: _get_tax_info and _get_starting_rate_for_savings.           *)
(***************************************************************************)
BasicRateLimit == 50270
HigherRateLimit == 125140
personal_allowance == 12570
max_starting_rate_band == 5000
IsaAllowance == 20000

\* _get_tax_info with the band limits exclusive
get_tax_info_exclusive(earnings) ==
    IF earnings = None
    THEN [psa |-> Pounds(1000), tax_rate |-> 4, band |-> "Basic Rate"]
    ELSE IF earnings[1] < Pounds(BasicRateLimit)
    THEN [psa |-> Pounds(1000), tax_rate |-> 4, band |-> "Basic Rate"]
    ELSE IF earnings[1] < Pounds(HigherRateLimit)
    THEN [psa |-> Pounds(500), tax_rate |-> 8, band |-> "Higher Rate"]
    ELSE [psa |-> 0, tax_rate |-> 9, band |-> "Additional Rate"]

get_tax_info(earnings) ==
    IF earnings = None
    THEN [psa |-> Pounds(1000), tax_rate |-> 4, band |-> "Basic Rate"]
    ELSE IF earnings[1] <= Pounds(BasicRateLimit)
    THEN [psa |-> Pounds(1000), tax_rate |-> 4, band |-> "Basic Rate"]
    ELSE IF earnings[1] <= Pounds(HigherRateLimit)
    THEN [psa |-> Pounds(500), tax_rate |-> 8, band |-> "Higher Rate"]
    ELSE [psa |-> 0, tax_rate |-> 9, band |-> "Additional Rate"]

\* _get_starting_rate_for_savings without its branch for earnings within the
\* personal allowance
get_starting_rate_untapered(earnings) ==
    IF earnings = None THEN 0
    ELSE IF earnings[1] >= Pounds(personal_allowance + max_starting_rate_band) THEN 0
    ELSE Pounds(max_starting_rate_band) - (earnings[1] - Pounds(personal_allowance))

get_starting_rate_for_savings(earnings) ==
    IF earnings = None THEN 0
    ELSE IF earnings[1] >= Pounds(personal_allowance + max_starting_rate_band) THEN 0
    ELSE IF earnings[1] <= Pounds(personal_allowance) THEN Pounds(max_starting_rate_band)
    ELSE LET reduction == earnings[1] - Pounds(personal_allowance)
         IN  Max2(0, Pounds(max_starting_rate_band) - reduction)

(***************************************************************************)
(* The inputs enumerated.  Every money value of one call is a multiple of  *)
(* a unit: 5000 pounds for calls at the scale of the ISA cap and of the    *)
(* allowances, 2 ticks (0.004 pound) for calls with amounts below a penny, *)
(* and 0.272 pound for calls whose interest lies next to a half penny.     *)
(***************************************************************************)
MaxGoals == 2
MaxAccounts == 3

PoundUnit == Pounds(5000)
SmallUnit == 1 + 1
HalfPennyUnit == 27 * TicksPerPenny + 1
Units == { PoundUnit, SmallUnit, HalfPennyUnit }
Horizons == { 0, 12, 24 }

Account(name, interest_rate, account_type, max_investment, term) ==
    [ name |-> name, interest_rate |-> interest_rate, account_type |-> account_type,
      platform |-> "Raisin", min_investment |-> 0, max_investment |-> max_investment,
      term |-> term, url |-> None ]

\* the accounts a catalog is drawn from, in catalog order; account_data_service
\* names an account by its bank and product type, so that the two fixed-term
\* products of one bank carry one name
Pool(u) ==
    << Account("EasyAccess", 10, "easy_access", Inf, 0),
       Account("EasyIsa", 6, "easy_access_isa", 2 * u, 0),
       Account("Fixed", 10, "fixed_term", Inf, 12),
       Account("Isa12", 8, "fixed_term_isa", Inf, 12),
       Account("Notice12", 10, "notice", u, 12),
       Account("Fixed", 10, "fixed_term", Inf, 24) >>

RECURSIVE SubSeqOf(_, _)
SubSeqOf(s, S) ==
    IF S = {} THEN << >>
    ELSE LET i == CHOOSE v \in S : \A w \in S : v <= w
         IN  << s[i] >> \o SubSeqOf(s, S \ {i})

Catalogs(u) ==
    { SubSeqOf(Pool(u), S) :
        S \in { T \in SUBSET (1 .. Len(Pool(u))) : Cardinality(T) <= MaxAccounts } }

SavingsGoal(amount, horizon) == [ amount |-> amount, horizon |-> horizon ]

GoalChoices(u) == { SavingsGoal(u, h) : h \in Horizons }

GoalLists(u) ==
    UNION { [ 1 .. n -> GoalChoices(u) ] : n \in 1 .. MaxGoals }

GoalTotal(goals) == SumSeq([ i \in DOMAIN goals |-> goals[i].amount ])

\* the sum of the goals, as routes.py passes it, or one unit more
TotalChoices(goals, u) == { GoalTotal(goals), GoalTotal(goals) + u }

EarningsChoices(u) ==
    IF u = SmallUnit THEN { None, Some(Pounds(130000)) }
    ELSE IF u = HalfPennyUnit THEN { Some(Pounds(130000)) }
    ELSE { None, Some(Pounds(60000)), Some(Pounds(130000)) }

IsaUsedChoices(u) ==
    IF u = SmallUnit THEN { None, Some(Pounds(IsaAllowance) - 2 * u) }
    ELSE IF u = HalfPennyUnit THEN { Some(Pounds(IsaAllowance) - 2 * u) }
    ELSE { None, Some(Pounds(15000)), Some(Pounds(25000)) }

OptimizationInput(total_investment, savings_goals, earnings, isa_allowance_used) ==
    [ total_investment |-> total_investment, savings_goals |-> savings_goals,
      earnings |-> earnings, isa_allowance_used |-> isa_allowance_used ]

\* the locals of a call that has not started
NotStarted ==
    /\ pc = "start"
    /\ tax_info = [ psa |-> 0, tax_rate |-> 0, band |-> "" ]
    /\ starting_rate_for_savings = 0
    /\ total_tax_free_allowance = 0
    /\ isa_allowance_remaining = 0
    /\ eligible_accounts = << >>
    /\ model = None
    /\ results = None
    /\ investments = << >>
    /\ total_gross_return = 0
    /\ result = None
    /\ raised = ""
    /\ response = None
    /\ records = << >>

Init ==
    /\ \E u \in Units :
          /\ \E goals \in GoalLists(u), e \in EarningsChoices(u), used \in IsaUsedChoices(u) :
                \E total \in TotalChoices(goals, u) :
                    input_data = OptimizationInput(total, goals, e, used)
          /\ accounts \in Catalogs(u)
    /\ NotStarted

(***************************************************************************)
(* optimize_savings, lines 54-81: tax policy and the eligibility filter.   *)
(***************************************************************************)
OptimizationResult(invs, summary, status) ==
    [ investments |-> invs, summary |-> summary, status |-> status ]

\* the remaining allowance without the allowance already used
IsaAllowanceWhole(used) == Pounds(IsaAllowance)

\* line 61: 20000.0 - (input_data.isa_allowance_used or 0.0)
IsaAllowanceRemaining(used) ==
    Pounds(IsaAllowance) - (IF used = None THEN 0 ELSE used[1])

ComputeTax ==
    /\ pc = "start"
    /\ tax_info' = get_tax_info(input_data.earnings)
    /\ starting_rate_for_savings' = get_starting_rate_for_savings(input_data.earnings)
    /\ total_tax_free_allowance' =
          get_tax_info(input_data.earnings).psa
            + get_starting_rate_for_savings(input_data.earnings)
    /\ isa_allowance_remaining' = IsaAllowanceRemaining(input_data.isa_allowance_used)
    /\ pc' = "filter"
    /\ UNCHANGED << response, records, input_data, accounts, eligible_accounts, model, results,
                    investments, total_gross_return, result, raised >>

\* lines 64-68, in twelfths of a year: max(1, max(g.horizon / 12.0))
InvestmentTermMonths(goals) ==
    LET goal_horizons == [ i \in DOMAIN goals |-> goals[i].horizon ]
        max_horizon == IF goal_horizons = << >> THEN 0 ELSE MaxSeq(goal_horizons)
    IN  Max2(12, max_horizon)

\* the filter that divides the term by 12 and compares it with months
IsEligibleInMonths(acc, goals) ==
    acc.term = 0 \/ acc.term \div 12 <= InvestmentTermMonths(goals)

\* line 73: acc.term == 0 or (acc.term / 12) <= investment_term_years
IsEligible(acc, goals) ==
    acc.term = 0 \/ acc.term <= InvestmentTermMonths(goals)

EligibleAccounts(accs, goals) ==
    SelectSeq(accs, LAMBDA acc : IsEligible(acc, goals))

FilterAccounts ==
    /\ pc = "filter"
    /\ EligibleAccounts(accounts, input_data.savings_goals) # << >>
    /\ eligible_accounts' = EligibleAccounts(accounts, input_data.savings_goals)
    /\ pc' = "build"
    /\ UNCHANGED << response, records, input_data, accounts, tax_info, starting_rate_for_savings,
                    total_tax_free_allowance, isa_allowance_remaining, model, results,
                    investments, total_gross_return, result, raised >>

\* lines 76-81
NoEligibleAccounts ==
    /\ pc = "filter"
    /\ EligibleAccounts(accounts, input_data.savings_goals) = << >>
    /\ result' = Some(OptimizationResult(<< >>, None,
                      "No eligible accounts found for the given investment horizon."))
    /\ pc' = "done"
    /\ UNCHANGED << response, records, input_data, accounts, tax_info, starting_rate_for_savings,
                    total_tax_free_allowance, isa_allowance_remaining, eligible_accounts,
                    model, results, investments, total_gross_return, raised >>

(***************************************************************************)
(* optimize_savings, lines 83-141: the linear program.                     *)
(***************************************************************************)
\* 'isa' in acc.account_type, over the type tags account_data_service produces
IsaInType(account_type) ==
    account_type \in { "fixed_term_isa", "easy_access_isa", "other_isa" }

is_isa(acc) == IsaInType(acc.account_type)

\* lines 92-93
non_isa_accounts == SelectSeq(eligible_accounts, LAMBDA acc : ~ is_isa(acc))
isa_accounts == SelectSeq(eligible_accounts, LAMBDA acc : is_isa(acc))

\* line 86: the index set of model.investments
VarNames(accs) == { accs[i].name : i \in DOMAIN accs }

\* sum(m.investments[acc.name] for acc in accs)
SumOver(x, accs) == SumSeq([ i \in DOMAIN accs |-> x[accs[i].name] ])

\* sum(m.investments[acc.name] * acc.interest_rate for acc in accs), tick-percents
InterestOver(x, accs) ==
    SumSeq([ i \in DOMAIN accs |-> x[accs[i].name] * accs[i].interest_rate ])

\* line 111
unique_horizons ==
    Sorted({ input_data.savings_goals[i].horizon : i \in DOMAIN input_data.savings_goals })

\* lines 114-118: one horizon equation
HorizonConstraint(horizon_months) ==
    LET goals == input_data.savings_goals
        matching == SelectSeq(goals, LAMBDA g : g.horizon = horizon_months)
        relevant == SelectSeq(eligible_accounts, LAMBDA acc : acc.term = horizon_months)
    IN  [ horizon |-> horizon_months,
          relevant_accounts |-> [ i \in DOMAIN relevant |-> relevant[i].name ],
          cumulative_goal_amount |-> GoalTotal(matching) ]

HorizonConstraints ==
    [ i \in DOMAIN unique_horizons |-> HorizonConstraint(unique_horizons[i]) ]

\* sum over no account is the int 0, and 0 == amount is a Python bool, which
\* ConstraintList.add refuses with a ValueError
TrivialConstraint(c) == c.relevant_accounts = << >>

BuildModel ==
    /\ pc = "build"
    /\ \A i \in DOMAIN HorizonConstraints : ~ TrivialConstraint(HorizonConstraints[i])
    /\ model' = Some([ investments |-> VarNames(eligible_accounts),
                       horizon_constraints |-> HorizonConstraints,
                       isa_limit_constraint |-> (isa_accounts # << >>) ])
    /\ pc' = "solve"
    /\ UNCHANGED << response, records, input_data, accounts, tax_info, starting_rate_for_savings,
                    total_tax_free_allowance, isa_allowance_remaining, eligible_accounts,
                    results, investments, total_gross_return, result, raised >>

BuildModelRaises ==
    /\ pc = "build"
    /\ \E i \in DOMAIN HorizonConstraints : TrivialConstraint(HorizonConstraints[i])
    /\ raised' = "ValueError"
    /\ pc' = "done"
    /\ UNCHANGED << response, records, input_data, accounts, tax_info, starting_rate_for_savings,
                    total_tax_free_allowance, isa_allowance_remaining, eligible_accounts,
                    model, results, investments, total_gross_return, result >>

\* one assignment of the model's variables
Solution(x, taxable_interest, tax_free_interest_non_isa) ==
    [ investments |-> x, taxable_interest |-> taxable_interest,
      tax_free_interest_non_isa |-> tax_free_interest_non_isa ]

\* line 104-106
total_investment_rule(sol) ==
    SumOver(sol.investments, eligible_accounts) = input_data.total_investment

\* the horizon constraint as an at-least
horizon_rule_at_least(sol, c) ==
    SumSeq([ i \in DOMAIN c.relevant_accounts |-> sol.investments[c.relevant_accounts[i]] ])
        >= c.cumulative_goal_amount

\* line 118
horizon_rule(sol, c) ==
    SumSeq([ i \in DOMAIN c.relevant_accounts |-> sol.investments[c.relevant_accounts[i]] ])
        = c.cumulative_goal_amount

\* lines 122-125
non_isa_interest_rule(sol) ==
    sol.taxable_interest + sol.tax_free_interest_non_isa
        = InterestOver(sol.investments, non_isa_accounts)

\* lines 128-130, the allowance in tick-percents
tax_free_limit_rule(sol) ==
    sol.tax_free_interest_non_isa <= total_tax_free_allowance * PercentDen

\* no upper limit on any account
investment_unlimited(sol, acc) == TRUE

\* lines 133-135
investment_limit(sol, acc) ==
    acc.max_investment = Inf \/ sol.investments[acc.name] <= acc.max_investment

\* lines 138-141
isa_limit_rule(sol) ==
    SumOver(sol.investments, isa_accounts) <= isa_allowance_remaining

\* the constraints, with the domains NonNegativeReals of lines 86-88
Feasible(sol) ==
    /\ \A n \in DOMAIN sol.investments : sol.investments[n] >= 0
    /\ sol.taxable_interest >= 0
    /\ sol.tax_free_interest_non_isa >= 0
    /\ total_investment_rule(sol)
    /\ \A i \in DOMAIN model[1].horizon_constraints :
          horizon_rule(sol, model[1].horizon_constraints[i])
    /\ non_isa_interest_rule(sol)
    /\ tax_free_limit_rule(sol)
    /\ \A i \in DOMAIN eligible_accounts : investment_limit(sol, eligible_accounts[i])
    /\ model[1].isa_limit_constraint => isa_limit_rule(sol)

\* the objective without the tax on the taxable interest
GrossInterestObjective(sol) ==
    TaxDen * InterestOver(sol.investments, isa_accounts)
      + TaxDen * sol.tax_free_interest_non_isa
      + TaxDen * sol.taxable_interest

\* lines 96-97 of objective_rule, in millionths of a pound
InterestObjective(sol) ==
    TaxDen * InterestOver(sol.investments, isa_accounts)
      + TaxDen * sol.tax_free_interest_non_isa
      + (TaxDen - tax_info.tax_rate) * sol.taxable_interest

\* the tie-break term with its sign turned: the ISA allowance used up
used_isa_allowance(sol) ==
    SumOver(sol.investments, isa_accounts) - isa_allowance_remaining

\* the objective without its tie-break term
no_remaining_isa_allowance(sol) == 0

\* line 98
final_remaining_isa_allowance(sol) ==
    isa_allowance_remaining - SumOver(sol.investments, isa_accounts)

\* line 99: 2e-7 of a pound per pound of remaining allowance is one millionth
\* of a pound per TieBreakDen ticks
EpsilonE7 == 2
TieBreakDen == (10 * TicksPerPound) \div EpsilonE7

\* objective_rule(a) > objective_rule(b), exactly and within 32 bits: the
\* tie-break term of any two solutions differs by less than BigGap millionths
BigGap == 4 * 5000
ObjectiveGreater(a, b) ==
    LET d == InterestObjective(a) - InterestObjective(b)
        r == final_remaining_isa_allowance(a) - final_remaining_isa_allowance(b)
    IN  IF d >= BigGap THEN TRUE
        ELSE IF d <= 0 - BigGap THEN FALSE
        ELSE d * TieBreakDen + r > 0

(***************************************************************************)
(* solver.solve(model), line 146.  GLPK solves the program over the reals; *)
(* here its variables range over the lattice of the multiples of the       *)
(* common divisor of the money data of the call.  The lattice holds every  *)
(* basic solution of the calls enumerated: the vertices of the allocation  *)
(* polytope are multiples of the divisor (its constraint matrix is totally *)
(* unimodular), and the non-ISA interest meets the tax-free allowance at   *)
(* allowance / rate, a multiple of 5000 pounds for the one non-ISA rate of *)
(* the pool.                                                               *)
(***************************************************************************)
RECURSIVE GcdSeq(_)
GcdSeq(s) == IF s = << >> THEN 0 ELSE Gcd(Head(s), GcdSeq(Tail(s)))

Abs(n) == IF n < 0 THEN 0 - n ELSE n

MoneyQuantum ==
    LET goals == input_data.savings_goals
        limits == SelectSeq([ i \in DOMAIN eligible_accounts |->
                                eligible_accounts[i].max_investment ],
                            LAMBDA m : m # Inf)
    IN  Gcd(Gcd(input_data.total_investment, Abs(isa_allowance_remaining)),
            Gcd(GcdSeq([ i \in DOMAIN goals |-> goals[i].amount ]), GcdSeq(limits)))

\* how many eligible accounts carry the name n
Multiplicity(n) ==
    Cardinality({ i \in DOMAIN eligible_accounts : eligible_accounts[i].name = n })

\* a variable that stands for m accounts enters the sums m times, and the
\* basic solutions are multiples of the divisor over m
LatticeStep ==
    LET m == CHOOSE k \in { Multiplicity(n) : n \in VarNames(eligible_accounts) } :
                 \A n \in VarNames(eligible_accounts) : Multiplicity(n) <= k
    IN  MoneyQuantum \div m

\* the lattice points x >= 0 of step `step` over the variables `names` with
\* sum(x[acc.name] for acc in eligible_accounts) == remaining
RECURSIVE LatticeAllocations(_, _, _)
LatticeAllocations(names, remaining, step) ==
    IF names = {}
    THEN IF remaining = 0 THEN { [ n \in {} |-> 0 ] } ELSE {}
    ELSE LET n == CHOOSE v \in names : TRUE
             w == Multiplicity(n) * step
         IN  UNION { { (n :> k * step) @@ rest :
                         rest \in LatticeAllocations(names \ {n}, remaining - k * w, step) } :
                     k \in 0 .. (remaining \div w) }

\* the values of the two interest variables at a basic solution with allocation x
InterestSplits(x) ==
    LET total_non_isa_interest == InterestOver(x, non_isa_accounts)
    IN  { Solution(x, total_non_isa_interest - f, f) :
            f \in { 0, total_non_isa_interest, total_tax_free_allowance * PercentDen } }

FeasibleSolutions ==
    LET allocations == LatticeAllocations(model[1].investments, input_data.total_investment,
                                          LatticeStep)
    IN  { sol \in UNION { InterestSplits(x) : x \in allocations } : Feasible(sol) }

\* sense = -1: maximise.  A solution whose interest is BigGap millionths or
\* more below the best interest is below the best objective, whatever its
\* tie-break term.
OptimalSolutions ==
    LET feasible == FeasibleSolutions
        interests == { InterestObjective(sol) : sol \in feasible }
        best == CHOOSE m \in interests : \A v \in interests : v <= m
        near == { sol \in feasible : best - InterestObjective(sol) < BigGap }
    IN  { sol \in near : \A other \in near : ~ ObjectiveGreater(other, sol) }

SolverResults(termination_condition, solution) ==
    [ termination_condition |-> termination_condition, solution |-> solution ]

SolveOptimal ==
    /\ pc = "solve"
    /\ \E sol \in OptimalSolutions :
          results' = Some(SolverResults("optimal", Some(sol)))
    /\ pc' = "solved"
    /\ UNCHANGED << response, records, input_data, accounts, tax_info, starting_rate_for_savings,
                    total_tax_free_allowance, isa_allowance_remaining, eligible_accounts,
                    model, investments, total_gross_return, result, raised >>

SolveInfeasible ==
    /\ pc = "solve"
    /\ FeasibleSolutions = {}
    /\ results' = Some(SolverResults("infeasible", None))
    /\ pc' = "solved"
    /\ UNCHANGED << response, records, input_data, accounts, tax_info, starting_rate_for_savings,
                    total_tax_free_allowance, isa_allowance_remaining, eligible_accounts,
                    model, investments, total_gross_return, result, raised >>

(***************************************************************************)
(* optimize_savings, lines 150-196: the result.                            *)
(***************************************************************************)
\* the filter of line 155 left out
AnyAmount(amount) == TRUE

\* line 155: amount > 1e-6, amounts in ticks
NoiseFloorMillionths == 1
MillionthsPerTick == 1000000 \div TicksPerPound
AboveNoiseFloor(amount) == amount > NoiseFloorMillionths \div MillionthsPerTick

\* int(amount): the amount cut to whole pounds
TruncateToPounds(amount) == TicksPerPound * (amount \div TicksPerPound)

\* round(amount, 2), in ticks
RoundToPennies(amount) == TicksPerPenny * RoundHalfEven(amount, TicksPerPenny)

\* line 160
TermLabel(term) == IF term > 0 THEN ToString(term) \o " months" ELSE "Easy access"

\* line 162: the account's own URL, else a web search for its name with '+'
\* for each space; the names of the pool hold no space
UrlOf(acc) ==
    IF acc.url # None THEN acc.url[1]
    ELSE "https://www.google.com/search?q=" \o acc.name

\* lines 156-164; aer = round(rate * 100, 2) is the rate, a whole percent
Investment(acc, amount) ==
    [ account_name |-> acc.name,
      amount |-> RoundToPennies(amount),
      aer |-> acc.interest_rate,
      term |-> TermLabel(acc.term),
      is_isa |-> is_isa(acc),
      url |-> UrlOf(acc),
      platform |-> acc.platform ]

\* lines 153-164
RECURSIVE InvestmentsOf(_, _)
InvestmentsOf(accs, x) ==
    IF accs = << >> THEN << >>
    ELSE LET acc == Head(accs)
             amount == x[acc.name]
         IN  (IF AboveNoiseFloor(amount) THEN << Investment(acc, amount) >> ELSE << >>)
               \o InvestmentsOf(Tail(accs), x)

\* line 165, summed over the loop: tick-percents of the amounts as solved
GrossReturnOf(accs, x) ==
    SumSeq([ i \in DOMAIN accs |->
               IF AboveNoiseFloor(x[accs[i].name])
               THEN x[accs[i].name] * accs[i].interest_rate ELSE 0 ])

Interpret ==
    /\ pc = "solved"
    /\ results[1].termination_condition = "optimal"
    /\ investments' = InvestmentsOf(eligible_accounts, results[1].solution[1].investments)
    /\ total_gross_return' =
          GrossReturnOf(eligible_accounts, results[1].solution[1].investments)
    /\ pc' = "summary"
    /\ UNCHANGED << response, records, input_data, accounts, tax_info, starting_rate_for_savings,
                    total_tax_free_allowance, isa_allowance_remaining, eligible_accounts,
                    model, results, result, raised >>

\* lines 191-196
ReturnFailed ==
    /\ pc = "solved"
    /\ results[1].termination_condition # "optimal"
    /\ result' = Some(OptimizationResult(<< >>, None,
                      "Optimization failed. Status: " \o results[1].termination_condition))
    /\ pc' = "done"
    /\ UNCHANGED << response, records, input_data, accounts, tax_info, starting_rate_for_savings,
                    total_tax_free_allowance, isa_allowance_remaining, eligible_accounts,
                    model, results, investments, total_gross_return, raised >>

\* line 168, tick-percents of the amounts as rounded
non_isa_gross_return(invs) ==
    SumSeq([ i \in DOMAIN invs |->
               IF invs[i].is_isa THEN 0 ELSE invs[i].amount * invs[i].aer ])

\* the taxable return without the tax-free allowance
taxable_return_no_allowance(invs) == non_isa_gross_return(invs)

\* line 169
taxable_return(invs) ==
    Max2(0, non_isa_gross_return(invs) - total_tax_free_allowance * PercentDen)

\* line 170, millionths of a pound
tax_paid(invs) == taxable_return(invs) * tax_info.tax_rate

\* line 171, millionths of a pound
total_net_return(invs) == TaxDen * total_gross_return - tax_paid(invs)

\* one hundredth of a percent of a tick, in millionths of a pound, inverted
AerScale == (10000 * TicksPerPound) \div 1000000

\* line 174, hundredths of a percent, already rounded as line 180 rounds it
net_effective_aer(invs) ==
    IF input_data.total_investment > 0
    THEN MulDivRound(total_net_return(invs), AerScale, input_data.total_investment)
    ELSE 0

\* lines 176-184: the keyword arguments handed to Summary, money in pennies
SummaryArguments(invs) ==
    [ total_investment |-> RoundHalfEven(input_data.total_investment, TicksPerPenny),
      gross_annual_interest |-> RoundHalfEven(total_gross_return, TicksPerPenny * PercentDen),
      net_annual_interest |->
          RoundHalfEven(total_net_return(invs), TicksPerPenny * PercentDen * TaxDen),
      net_effective_aer |-> net_effective_aer(invs),
      tax_due |-> RoundHalfEven(tax_paid(invs), TicksPerPenny * PercentDen * TaxDen),
      tax_band |-> tax_info.band,
      personal_savings_allowance |-> tax_info.psa ]

\* app/models.py: the fields of the dataclass Summary, none with a default
SummaryFields ==
    { "total_investment", "gross_annual_interest", "net_annual_interest",
      "net_effective_aer", "tax_due", "tax_band", "personal_savings_allowance",
      "tax_rate", "tax_free_allowance_remaining" }

\* the generated __init__ takes every field: a missing one is a TypeError
SummaryAccepts(arguments) == DOMAIN arguments = SummaryFields

\* lines 167-190
BuildSummary ==
    /\ pc = "summary"
    /\ IF SummaryAccepts(SummaryArguments(investments))
       THEN /\ result' = Some(OptimizationResult(investments,
                                  Some(SummaryArguments(investments)), "Optimal"))
            /\ raised' = raised
       ELSE /\ raised' = "TypeError"
            /\ result' = result
    /\ pc' = "done"
    /\ UNCHANGED << response, records, input_data, accounts, tax_info, starting_rate_for_savings,
                    total_tax_free_allowance, isa_allowance_remaining, eligible_accounts,
                    model, results, investments, total_gross_return >>

Next ==
    \/ ComputeTax
    \/ FilterAccounts
    \/ NoEligibleAccounts
    \/ BuildModel
    \/ BuildModelRaises
    \/ SolveOptimal
    \/ SolveInfeasible
    \/ Interpret
    \/ ReturnFailed
    \/ BuildSummary

Spec == Init /\ [][Next]_vars

(***************************************************************************)
(* The tax policy over a range of earnings: calls with one 12-month goal   *)
(* of 5000 pounds and the catalog of one 12-month account, which all solve *)
(* to optimality.                                                          *)
(***************************************************************************)
TaxThresholds ==
    { personal_allowance, personal_allowance + max_starting_rate_band,
      BasicRateLimit, HigherRateLimit }

TaxEarnings ==
    { None, Some(0), Some(Pounds(30000)), Some(Pounds(100000)), Some(Pounds(200000)) }
      \cup { Some(Pounds(t) + d) : t \in TaxThresholds, d \in { 0 - 1, 0, 1 } }
      \cup { Some(Pounds(personal_allowance + k * 1000) + d) : k \in 1 .. 4, d \in { 0, 1 } }

InitTax ==
    /\ \E e \in TaxEarnings :
          input_data = OptimizationInput(PoundUnit, << SavingsGoal(PoundUnit, 12) >>, e, None)
    /\ accounts = << Pool(PoundUnit)[3] >>
    /\ NotStarted

NextTax ==
    \/ ComputeTax
    \/ FilterAccounts
    \/ BuildModel
    \/ SolveOptimal
    \/ Interpret
    \/ BuildSummary

SpecTax == InitTax /\ [][NextTax]_vars

(***************************************************************************)
(* The claims.                                                             *)
(***************************************************************************)
\* the solver ended "optimal" and lines 151-165 have built the list of
\* investments of the "Optimal" result
OptimalBranch ==
    /\ pc \in { "summary", "done" }
    /\ results # None
    /\ results[1].termination_condition = "optimal"

\* the allocation the solver returned
SolvedAmounts == results[1].solution[1].investments

\* C9: _get_tax_info yields, for every earnings, PSA 1000 / 20% / "Basic Rate"
\* when earnings is unset or at most 50270, PSA 500 / 40% / "Higher Rate" when
\* above 50270 and at most 125140, PSA 0 / 45% / "Additional Rate" above
\* 125140; and the tax_band and personal_savings_allowance that the Optimal
\* branch hands to the summary are these values.
C9_TaxBand ==
    LET e == input_data.earnings
        basic == e = None \/ e[1] <= 50270 * TicksPerPound
        higher == e # None /\ e[1] > 50270 * TicksPerPound /\ e[1] <= 125140 * TicksPerPound
        psa == IF basic THEN 1000 * TicksPerPound
               ELSE IF higher THEN 500 * TicksPerPound ELSE 0
        band == IF basic THEN "Basic Rate"
                ELSE IF higher THEN "Higher Rate" ELSE "Additional Rate"
        \* 0.20, 0.40, 0.45 in twentieths
        rate == IF basic THEN 4 ELSE IF higher THEN 8 ELSE 9
    IN  /\ pc # "start" =>
              /\ tax_info.psa = psa
              /\ tax_info.tax_rate = rate
              /\ tax_info.band = band
        /\ OptimalBranch =>
              /\ SummaryArguments(investments).tax_band = band
              /\ SummaryArguments(investments).personal_savings_allowance = psa

\* a higher-rate call has reached the summary of its Optimal branch
C9_Witness ==
    /\ OptimalBranch
    /\ input_data.earnings = Some(Pounds(HigherRateLimit))
    /\ SummaryArguments(investments).tax_band = "Higher Rate"

\* C10: _get_starting_rate_for_savings is 0 when earnings is unset or at
\* least 17570, 5000 when earnings is at most 12570, and
\* 5000 - (earnings - 12570) between; so it lies in [0, 5000], does not
\* increase with earnings, and the allowance the model uses is PSA + it.
C10_StartingRate ==
    LET e == input_data.earnings
        sr == starting_rate_for_savings
    IN  pc # "start" =>
          /\ (e = None \/ e[1] >= 17570 * TicksPerPound) => sr = 0
          /\ (e # None /\ e[1] <= 12570 * TicksPerPound) => sr = 5000 * TicksPerPound
          /\ (e # None /\ e[1] > 12570 * TicksPerPound /\ e[1] < 17570 * TicksPerPound)
                => sr = 5000 * TicksPerPound - (e[1] - 12570 * TicksPerPound)
          /\ sr >= 0
          /\ sr <= 5000 * TicksPerPound
          /\ \A other \in TaxEarnings \ { None } :
                (e # None /\ other[1] >= e[1])
                    => get_starting_rate_for_savings(other) <= sr
          /\ total_tax_free_allowance = tax_info.psa + sr
          /\ (model # None /\ results # None /\ results[1].solution # None) =>
                results[1].solution[1].tax_free_interest_non_isa
                    <= (tax_info.psa + sr) * 100

\* a call of earnings inside the tapered band has been solved with its allowance
C10_Witness ==
    /\ OptimalBranch
    /\ input_data.earnings = Some(Pounds(personal_allowance + 2000))
    /\ starting_rate_for_savings = Pounds(3000)
    /\ total_tax_free_allowance = Pounds(4000)

\* the solver has returned an optimal solution
SolvedOptimal ==
    /\ results # None
    /\ results[1].termination_condition = "optimal"

RECURSIVE AmountSum(_)
AmountSum(invs) == IF invs = << >> THEN 0 ELSE Head(invs).amount + AmountSum(Tail(invs))

\* the sum of the amounts y over the eligible accounts that satisfy Test
AllocatedTo(y, Test(_)) ==
    LET chosen == SelectSeq(eligible_accounts, Test)
    IN  SumSeq([ i \in DOMAIN chosen |-> y[chosen[i].name] ])

GoalAmountAt(h) ==
    LET goals == SelectSeq(input_data.savings_goals, LAMBDA g : g.horizon = h)
    IN  SumSeq([ i \in DOMAIN goals |-> goals[i].amount ])

GoalHorizons ==
    { input_data.savings_goals[i].horizon : i \in DOMAIN input_data.savings_goals }

\* 20000 - isa_allowance_used, in ticks
AllowanceLeft ==
    20000 * TicksPerPound
      - (IF input_data.isa_allowance_used = None THEN 0 ELSE input_data.isa_allowance_used[1])

IsaEligible == \E i \in DOMAIN eligible_accounts : is_isa(eligible_accounts[i])

\* the constraints of the program on an allocation y of the eligible accounts
SatisfiesConstraints(y) ==
    /\ \A n \in DOMAIN y : y[n] >= 0
    /\ AllocatedTo(y, LAMBDA acc : TRUE) = input_data.total_investment
    /\ \A h \in GoalHorizons : AllocatedTo(y, LAMBDA acc : acc.term = h) = GoalAmountAt(h)
    /\ \A i \in DOMAIN eligible_accounts :
          \/ eligible_accounts[i].max_investment = Inf
          \/ y[eligible_accounts[i].name] <= eligible_accounts[i].max_investment
    /\ IsaEligible => AllocatedTo(y, LAMBDA acc : is_isa(acc)) <= AllowanceLeft

\* ISA interest + non-ISA interest - tax_rate * (non-ISA interest above the
\* tax-free allowance), in millionths of a pound
AfterTaxInterest(y) ==
    LET isa_interest ==
            SumSeq([ i \in DOMAIN eligible_accounts |->
                       IF is_isa(eligible_accounts[i])
                       THEN y[eligible_accounts[i].name] * eligible_accounts[i].interest_rate
                       ELSE 0 ])
        non_isa_interest ==
            SumSeq([ i \in DOMAIN eligible_accounts |->
                       IF is_isa(eligible_accounts[i])
                       THEN 0
                       ELSE y[eligible_accounts[i].name] * eligible_accounts[i].interest_rate ])
        above == Max2(0, non_isa_interest - total_tax_free_allowance * 100)
    IN  20 * (isa_interest + non_isa_interest) - tax_info.tax_rate * above

\* every allocation of the eligible accounts in steps of the common divisor
\* of the money of the call
Allocations ==
    [ VarNames(eligible_accounts) ->
        { k * LatticeStep : k \in 0 .. (input_data.total_investment \div LatticeStep) } ]

\* a exceeds b by more than 2e-7 * the remaining ISA allowance
ExceedsBeyondTieBreak(a, b) ==
    LET d == AfterTaxInterest(a) - AfterTaxInterest(b)
    IN  /\ d > 0
        /\ \/ d >= BigGap
           \/ d * TieBreakDen > Max2(0, AllowanceLeft)

\* The solver's part of C1, over the assignments of the variables of the
\* model, one per account name: when the solver ends optimal, the assignment
\* it returns satisfies the constraints, and no assignment that satisfies them
\* has an after-tax annual interest above the returned one's by more than
\* 2e-7 * the remaining ISA allowance.
SolverMaximizesAfterTaxReturn ==
    (pc = "solved" /\ SolvedOptimal) =>
        /\ SatisfiesConstraints(SolvedAmounts)
        /\ \A y \in Allocations :
              SatisfiesConstraints(y) => ~ ExceedsBeyondTieBreak(y, SolvedAmounts)

\* an additional-rate call for which some assignment within the constraints
\* earns less after tax than the returned one, which holds ISA money
SolverMaximizesWitness ==
    /\ pc = "solved"
    /\ SolvedOptimal
    /\ tax_info.tax_rate = 9
    /\ AllocatedTo(SolvedAmounts, LAMBDA acc : is_isa(acc)) > 0
    /\ \E y \in Allocations :
          /\ SatisfiesConstraints(y)
          /\ AfterTaxInterest(y) < AfterTaxInterest(SolvedAmounts)

\* C2: on the Optimal branch the amounts as solved sum to total_investment,
\* and the amounts of the investments list, each rounded to 2 decimals, sum to
\* it within half a penny per investment.
C2_TotalInvested ==
    OptimalBranch =>
        /\ AllocatedTo(SolvedAmounts, LAMBDA acc : TRUE) = input_data.total_investment
        /\ 2 * Abs(AmountSum(investments) - input_data.total_investment)
              <= TicksPerPenny * Len(investments)

\* two investments whose rounded amounts do not sum to the total
C2_Witness ==
    /\ OptimalBranch
    /\ Len(investments) >= 2
    /\ AmountSum(investments) # input_data.total_investment

\* the label line 160 gives the term h
TermOfHorizon(h) == IF h = 0 THEN "Easy access" ELSE ToString(h) \o " months"

InvestmentsAt(h) == SelectSeq(investments, LAMBDA inv : inv.term = TermOfHorizon(h))

\* C3 as stated: on the Optimal branch, for every horizon h of the goals, the
\* amounts of the investments of term h sum exactly to the amounts of the
\* goals of horizon h.
C3_HorizonExact ==
    OptimalBranch =>
        \A h \in GoalHorizons : AmountSum(InvestmentsAt(h)) = GoalAmountAt(h)

\* C3 amended: on the Optimal branch, for every horizon h of the goals, the
\* amounts as solved of the accounts of term h sum exactly to the goals of
\* horizon h, and the rounded amounts of the investments of term h sum to
\* them within half a penny per investment.
C3_HorizonWithinRounding ==
    OptimalBranch =>
        \A h \in GoalHorizons :
            /\ AllocatedTo(SolvedAmounts, LAMBDA acc : acc.term = h) = GoalAmountAt(h)
            /\ 2 * Abs(AmountSum(InvestmentsAt(h)) - GoalAmountAt(h))
                  <= TicksPerPenny * Len(InvestmentsAt(h))

\* goals at horizons 0 and 12, each met by investments of its term
C3_Witness ==
    /\ OptimalBranch
    /\ GoalHorizons = { 0, 12 }
    /\ InvestmentsAt(0) # << >>
    /\ InvestmentsAt(12) # << >>
    /\ AmountSum(InvestmentsAt(12)) = GoalAmountAt(12)

IsaInvestments == SelectSeq(investments, LAMBDA inv : inv.is_isa)

\* C4 as stated: on the Optimal branch, with isa_allowance_used >= 0 and any
\* catalog, the amounts of the ISA investments sum to at most
\* 20000 - isa_allowance_used.
C4_IsaCap ==
    OptimalBranch => AmountSum(IsaInvestments) <= AllowanceLeft

\* C4 amended: on the Optimal branch, if an eligible account is an ISA, the
\* ISA amounts as solved sum to at most 20000 - isa_allowance_used and the
\* rounded amounts exceed it by at most half a penny per ISA investment; if
\* none is, there is no ISA investment, whatever isa_allowance_used.
C4_IsaCapWithinRounding ==
    OptimalBranch =>
        /\ IsaEligible =>
              /\ AllocatedTo(SolvedAmounts, LAMBDA acc : is_isa(acc)) <= AllowanceLeft
              /\ 2 * (AmountSum(IsaInvestments) - AllowanceLeft)
                    <= TicksPerPenny * Len(IsaInvestments)
        /\ ~ IsaEligible => IsaInvestments = << >>
        /\ 2 * (AmountSum(IsaInvestments) - Max2(0, AllowanceLeft))
              <= TicksPerPenny * Len(IsaInvestments)

\* part of the allowance is used and the ISA investments take all the rest
C4_Witness ==
    /\ OptimalBranch
    /\ input_data.isa_allowance_used = Some(Pounds(15000))
    /\ AmountSum(IsaInvestments) = Pounds(5000)
    /\ Len(investments) >= 2

\* the eligible account an investment was made in
AccountOf(inv) ==
    eligible_accounts[CHOOSE i \in DOMAIN eligible_accounts :
                          eligible_accounts[i].name = inv.account_name]

\* C5 as stated: every investment has 0 < amount <= max_investment of its
\* account, an unbounded max_investment being no limit.
C5_AmountWithinLimit ==
    \A i \in DOMAIN investments :
        /\ investments[i].amount > 0
        /\ \/ AccountOf(investments[i]).max_investment = Inf
           \/ investments[i].amount <= AccountOf(investments[i]).max_investment

\* C5 amended: for every investment, the amount as solved is above 0 and at
\* most max_investment of its account (no limit if unbounded), and the
\* amount, rounded to 2 decimals, is at least 0, within half a penny of the
\* amount as solved, and at most max_investment when that is whole pennies.
C5_AmountWithinLimitRounded ==
    \A i \in DOMAIN investments :
        LET inv == investments[i]
            limit == AccountOf(inv).max_investment
            solved == SolvedAmounts[inv.account_name]
        IN  /\ solved > 0
            /\ limit = Inf \/ solved <= limit
            /\ inv.amount >= 0
            /\ 2 * Abs(inv.amount - solved) <= TicksPerPenny
            /\ (limit # Inf /\ limit % TicksPerPenny = 0) => inv.amount <= limit

\* an investment that fills its account to max_investment, beside another
C5_Witness ==
    /\ OptimalBranch
    /\ Len(investments) >= 2
    /\ \E i \in DOMAIN investments :
          /\ AccountOf(investments[i]).max_investment # Inf
          /\ investments[i].amount = AccountOf(investments[i]).max_investment

\* C6: once the solver has run and the call has ended: after "optimal" the
\* call has returned status "Optimal" with a Summary of all its fields; after
\* any other termination it has returned "Optimization failed. Status: " and
\* the termination, no investments and no summary; and a returned result has
\* a summary exactly when its status is "Optimal".
C6_StatusMapping ==
    (pc = "done" /\ results # None) =>
        /\ SolvedOptimal =>
              /\ result # None
              /\ result[1].status = "Optimal"
              /\ result[1].summary # None
              /\ DOMAIN result[1].summary[1] = SummaryFields
        /\ ~ SolvedOptimal =>
              /\ result # None
              /\ result[1].status =
                    "Optimization failed. Status: " \o results[1].termination_condition
              /\ result[1].investments = << >>
              /\ result[1].summary = None
        /\ result # None => (result[1].summary # None <=> result[1].status = "Optimal")

\* C7: a call with well-formed input ends by returning a result whose status
\* is "Optimal", the no-eligible-accounts message or "Optimization failed.
\* Status: ..."; it raises no exception.
C7_NeverRaises ==
    /\ raised = ""
    /\ pc = "done" =>
          /\ result # None
          /\ \/ result[1].status = "Optimal"
             \/ result[1].status = "No eligible accounts found for the given investment horizon."
             \/ \E t \in { "infeasible", "unbounded", "other" } :
                   result[1].status = "Optimization failed. Status: " \o t

\* no account of the catalog has term == 0 or term/12 <= max(1, max horizon/12)
NoAccountEligible ==
    \A i \in DOMAIN accounts :
        ~ \/ accounts[i].term = 0
          \/ accounts[i].term <= 12
          \/ \E g \in DOMAIN input_data.savings_goals :
                accounts[i].term <= input_data.savings_goals[g].horizon

\* C8: if no account of the catalog is eligible, the call ends with no
\* investments, no summary and the no-eligible-accounts status, with no model
\* built and the solver never run; and the model is built and the solver run
\* only with a non-empty eligible set.
C8_NoEligibleEarlyReturn ==
    /\ (NoAccountEligible /\ pc # "start") =>
          /\ model = None
          /\ results = None
          /\ raised = ""
          /\ pc \in { "filter", "done" }
          /\ pc = "done" =>
                result = Some([ investments |-> << >>, summary |-> None,
                                status |-> "No eligible accounts found for the given investment horizon." ])
    /\ (model # None \/ results # None) =>
          /\ eligible_accounts # << >>
          /\ ~ NoAccountEligible

\* a call whose catalog holds only accounts of too long a term has returned
C8_Witness ==
    /\ pc = "done"
    /\ accounts # << >>
    /\ NoAccountEligible
    /\ result # None

\* some goal asks for a horizon h > 0 that no account of the catalog has as
\* its term
UnmatchedHorizon ==
    \E g \in DOMAIN input_data.savings_goals :
        /\ input_data.savings_goals[g].horizon > 0
        /\ input_data.savings_goals[g].amount > 0
        /\ \A i \in DOMAIN accounts :
              accounts[i].term # input_data.savings_goals[g].horizon

HasEasyAccess == \E i \in DOMAIN accounts : accounts[i].term = 0

\* C11: a call whose goals ask for a horizon h > 0 that no account has as its
\* term, with no easy-access account in the catalog and some account
\* eligible, ends by returning "Optimization failed. Status: infeasible" with
\* no investments and no summary.
C11_UnmatchedHorizonInfeasible ==
    (pc = "done" /\ UnmatchedHorizon /\ ~ HasEasyAccess /\ ~ NoAccountEligible) =>
        result = Some([ investments |-> << >>, summary |-> None,
                        status |-> "Optimization failed. Status: infeasible" ])

\* C12: a call with one goal of amount a and horizon h > 0, total_investment
\* a, and a catalog without an account of term h but with an easy-access
\* account of max_investment at least a, ends by returning "Optimal" with the
\* amount a in easy-access investments.
C12_EasyAccessFundsGoal ==
    LET goals == input_data.savings_goals
        roomy == \E i \in DOMAIN accounts :
                    /\ accounts[i].term = 0
                    /\ \/ accounts[i].max_investment = Inf
                       \/ accounts[i].max_investment >= goals[1].amount
    IN  (/\ pc = "done"
         /\ Len(goals) = 1
         /\ input_data.total_investment = goals[1].amount
         /\ UnmatchedHorizon
         /\ roomy) =>
            /\ result # None
            /\ result[1].status = "Optimal"
            /\ AmountSum(SelectSeq(result[1].investments,
                                   LAMBDA inv : inv.term = "Easy access")) = goals[1].amount

\* lines 151-184 as a function of the solution the solver returns: the
\* keyword arguments handed to Summary
SummaryOfSolution(sol) ==
    LET invs == InvestmentsOf(eligible_accounts, sol.investments)
        gross == GrossReturnOf(eligible_accounts, sol.investments)
        net == TaxDen * gross - tax_paid(invs)
    IN  [ total_investment |-> RoundHalfEven(input_data.total_investment, TicksPerPenny),
          gross_annual_interest |-> RoundHalfEven(gross, TicksPerPenny * PercentDen),
          net_annual_interest |-> RoundHalfEven(net, TicksPerPenny * PercentDen * TaxDen),
          net_effective_aer |->
              IF input_data.total_investment > 0
              THEN MulDivRound(net, AerScale, input_data.total_investment)
              ELSE 0,
          tax_due |-> RoundHalfEven(tax_paid(invs), TicksPerPenny * PercentDen * TaxDen),
          tax_band |-> tax_info.band,
          personal_savings_allowance |-> tax_info.psa ]

\* the objective of line 99 has the same value at the allocations a and b:
\* after-tax interest + 2e-7 * (remaining allowance - ISA money)
SameObjectiveValue(a, b) ==
    LET d == AfterTaxInterest(a) - AfterTaxInterest(b)
        isa == AllocatedTo(a, LAMBDA acc : is_isa(acc))
                 - AllocatedTo(b, LAMBDA acc : is_isa(acc))
    IN  /\ Abs(d) < BigGap
        /\ d * TieBreakDen = isa

RequestIsaUsed(used) == IF used = None THEN Some(0) ELSE used

InitRoute ==
    /\ \E u \in Units :
          /\ \E goals \in GoalLists(u), e \in EarningsChoices(u), used \in IsaUsedChoices(u) :
                input_data = OptimizationInput(GoalTotal(goals), goals, e, RequestIsaUsed(used))
          /\ accounts \in Catalogs(u)
    /\ pc = "request"
    /\ tax_info = [ psa |-> 0, tax_rate |-> 0, band |-> "" ]
    /\ starting_rate_for_savings = 0
    /\ total_tax_free_allowance = 0
    /\ isa_allowance_remaining = 0
    /\ eligible_accounts = << >>
    /\ model = None
    /\ results = None
    /\ investments = << >>
    /\ total_gross_return = 0
    /\ result = None
    /\ raised = ""
    /\ response = None
    /\ records = << >>

Response(status_code, body) == [ status_code |-> status_code, body |-> body ]

\* lines 49-51: get_accounts() returned no account
NoAccountData ==
    /\ pc = "request"
    /\ accounts = << >>
    /\ response' = Some(Response(500, "Could not retrieve account data"))
    /\ pc' = "responded"
    /\ UNCHANGED << input_data, accounts, tax_info, starting_rate_for_savings,
                    total_tax_free_allowance, isa_allowance_remaining, eligible_accounts,
                    model, results, investments, total_gross_return, result, raised,
                    records >>

\* lines 54-62: the call of optimize_savings
CallOptimizeSavings ==
    /\ pc = "request"
    /\ accounts # << >>
    /\ pc' = "start"
    /\ UNCHANGED << input_data, accounts, tax_info, starting_rate_for_savings,
                    total_tax_free_allowance, isa_allowance_remaining, eligible_accounts,
                    model, results, investments, total_gross_return, result, raised,
                    response, records >>

\* line 62 stands in no try block: an exception of optimize_savings leaves
\* the view, and Flask answers 500 (or hands the exception to the test client)
OptimizeRaises ==
    /\ pc = "done"
    /\ raised # ""
    /\ response' = Some(Response(500, raised))
    /\ pc' = "responded"
    /\ UNCHANGED << input_data, accounts, tax_info, starting_rate_for_savings,
                    total_tax_free_allowance, isa_allowance_remaining, eligible_accounts,
                    model, results, investments, total_gross_return, result, raised,
                    records >>

\* database_models.py, lines 10-31: the columns of OptimizationRecord
RecordColumns ==
    { "id", "timestamp", "total_investment", "earnings", "isa_allowance_used",
      "savings_goals_json", "status", "total_gross_interest", "total_net_interest",
      "net_effective_aer", "tax_due", "tax_band", "personal_savings_allowance",
      "investments_json", "user_agent", "ip_address" }

\* lines 66-83: the keyword arguments of OptimizationRecord(...)
RecordKeywords ==
    { "total_investment", "earnings", "isa_allowance_used", "savings_goals_json",
      "status", "total_gross_interest", "total_net_interest", "net_effective_aer",
      "tax_due", "tax_band", "personal_savings_allowance", "tax_rate",
      "tax_free_allowance", "investments_json", "user_agent", "ip_address" }

\* lines 72-79: result.summary.<field> if result.summary else None; reading
\* a field Summary has not is an AttributeError
SummaryAttribute(summary, field) ==
    IF summary = None THEN None
    ELSE IF field \in DOMAIN summary[1] THEN Some(summary[1][field])
    ELSE Some("AttributeError")

\* the declarative constructor refuses a keyword that is no attribute of the
\* class with a TypeError
RecordAccepted(res) ==
    /\ RecordKeywords \subseteq RecordColumns
    /\ SummaryAttribute(res.summary, "tax_rate") # Some("AttributeError")
    /\ SummaryAttribute(res.summary, "tax_free_allowance") # Some("AttributeError")

OptimizationRecord(id, res) ==
    [ id |-> id,
      total_investment |-> input_data.total_investment,
      earnings |-> input_data.earnings,
      isa_allowance_used |-> input_data.isa_allowance_used,
      savings_goals_json |-> input_data.savings_goals,
      status |-> res.status,
      tax_band |-> SummaryAttribute(res.summary, "tax_band"),
      personal_savings_allowance |->
          SummaryAttribute(res.summary, "personal_savings_allowance"),
      investments_json |-> IF res.investments # << >> THEN Some(res.investments) ELSE None ]

\* lines 65-93: the record is added and committed, or the except branch
\* rolls back and the request goes on
SaveRecord ==
    /\ pc = "done"
    /\ raised = ""
    /\ result # None
    /\ IF RecordAccepted(result[1])
       THEN records' = Append(records, OptimizationRecord(Len(records) + 1, result[1]))
       ELSE records' = records
    /\ pc' = "saved"
    /\ UNCHANGED << input_data, accounts, tax_info, starting_rate_for_savings,
                    total_tax_free_allowance, isa_allowance_remaining, eligible_accounts,
                    model, results, investments, total_gross_return, result, raised,
                    response >>

\* line 96: jsonify(asdict(result)), status 200
Respond ==
    /\ pc = "saved"
    /\ response' = Some(Response(200,
          [ investments |-> result[1].investments,
            summary |-> result[1].summary,
            status |-> result[1].status,
            optimization_record_id |->
                IF Len(records) > 0 THEN Some(records[Len(records)].id) ELSE None ]))
    /\ pc' = "responded"
    /\ UNCHANGED << input_data, accounts, tax_info, starting_rate_for_savings,
                    total_tax_free_allowance, isa_allowance_remaining, eligible_accounts,
                    model, results, investments, total_gross_return, result, raised,
                    records >>

NextRoute ==
    \/ NoAccountData
    \/ CallOptimizeSavings
    \/ Next
    \/ OptimizeRaises
    \/ SaveRecord
    \/ Respond

SpecRoute == InitRoute /\ [][NextRoute]_vars

\* C14: a POST /optimize with valid goals of positive total, a non-empty
\* catalog and a program the solver solves to optimality is answered 200 with
\* status "Optimal" and some investment, and leaves exactly one
\* OptimizationRecord, with total_investment the sum of the goal amounts, the
\* earnings of the request, status "Optimal" and the tax band of the earnings.
C14_OptimizeEndpoint ==
    (pc = "responded" /\ accounts # << >> /\ SolvedOptimal) =>
        /\ response # None
        /\ response[1].status_code = 200
        /\ response[1].body.status = "Optimal"
        /\ response[1].body.investments # << >>
        /\ Len(records) = 1
        /\ records[1].total_investment = GoalTotal(input_data.savings_goals)
        /\ records[1].earnings = input_data.earnings
        /\ records[1].status = "Optimal"
        /\ records[1].tax_band = Some(get_tax_info(input_data.earnings).band)

IsaMoney(y) == AllocatedTo(y, LAMBDA acc : is_isa(acc))

\* the allocations within the constraints whose after-tax interest is that of
\* the allocation returned
ReturnEquivalent ==
    { y \in Allocations :
        /\ SatisfiesConstraints(y)
        /\ AfterTaxInterest(y) = AfterTaxInterest(SolvedAmounts) }

\* C15 as stated: among the allocations within the constraints of equal
\* after-tax interest, the one returned has the most money in ISA accounts.
C15_PrefersMoreIsa ==
    (pc = "solved" /\ SolvedOptimal) =>
        \A y \in ReturnEquivalent : IsaMoney(SolvedAmounts) >= IsaMoney(y)

\* C15 amended: among the allocations within the constraints of equal
\* after-tax interest, the one returned has the least money in ISA accounts:
\* the tie-break term pays for ISA allowance left unused.
C15_PrefersLessIsa ==
    (pc = "solved" /\ SolvedOptimal) =>
        \A y \in ReturnEquivalent : IsaMoney(SolvedAmounts) <= IsaMoney(y)

\* the solver has returned an allocation while another of equal after-tax
\* interest holds more ISA money
C15_Witness ==
    /\ pc = "solved"
    /\ SolvedOptimal
    /\ \E y \in ReturnEquivalent : IsaMoney(y) > IsaMoney(SolvedAmounts)

\* an amount for each eligible account, in steps of the lattice
AccountAllocations ==
    [ DOMAIN eligible_accounts ->
        { k * LatticeStep : k \in 0 .. (input_data.total_investment \div LatticeStep) } ]

\* the amounts the returned solution gives the eligible accounts, one by one
ReturnedAllocation ==
    [ i \in DOMAIN eligible_accounts |-> SolvedAmounts[eligible_accounts[i].name] ]

\* the sum of the amounts a over the eligible accounts that satisfy Test
SumOfAccounts(a, Test(_)) ==
    SumSeq([ i \in DOMAIN eligible_accounts |->
               IF Test(eligible_accounts[i]) THEN a[i] ELSE 0 ])

\* the constraints C1 lists, on an amount for each account
AllocationWithinConstraints(a) ==
    /\ \A i \in DOMAIN a : a[i] >= 0
    /\ SumOfAccounts(a, LAMBDA acc : TRUE) = input_data.total_investment
    /\ \A h \in GoalHorizons : SumOfAccounts(a, LAMBDA acc : acc.term = h) = GoalAmountAt(h)
    /\ \A i \in DOMAIN eligible_accounts :
          \/ eligible_accounts[i].max_investment = Inf
          \/ a[i] <= eligible_accounts[i].max_investment
    /\ IsaEligible => SumOfAccounts(a, LAMBDA acc : is_isa(acc)) <= AllowanceLeft

\* the after-tax annual interest of an amount for each account, in
\* millionths of a pound
AfterTaxInterestOfAccounts(a) ==
    LET isa_interest ==
            SumSeq([ i \in DOMAIN eligible_accounts |->
                       IF is_isa(eligible_accounts[i])
                       THEN a[i] * eligible_accounts[i].interest_rate ELSE 0 ])
        non_isa_interest ==
            SumSeq([ i \in DOMAIN eligible_accounts |->
                       IF is_isa(eligible_accounts[i])
                       THEN 0 ELSE a[i] * eligible_accounts[i].interest_rate ])
        above == Max2(0, non_isa_interest - total_tax_free_allowance * 100)
    IN  20 * (isa_interest + non_isa_interest) - tax_info.tax_rate * above

\* C1: when the solver ends optimal, no allocation of the eligible accounts
\* that satisfies the constraints (full sum, per-horizon sums, max_investment,
\* ISA cap, non-negativity) has an after-tax annual interest above that of
\* the allocation returned by more than 2e-7 * the remaining ISA allowance.
C1_MaximizesAfterTaxReturn ==
    (pc = "solved" /\ SolvedOptimal) =>
        \A a \in AccountAllocations :
            AllocationWithinConstraints(a) =>
                LET d == AfterTaxInterestOfAccounts(a)
                           - AfterTaxInterestOfAccounts(ReturnedAllocation)
                IN  ~ /\ d > 0
                      /\ \/ d >= BigGap
                         \/ d * TieBreakDen > Max2(0, AllowanceLeft)

\* lines 86, 96, 105, 154: the variable of an account is model.investments
\* at the account's name
VariableOf(acc) == acc.name

\* C17: the model has one decision variable for each eligible account, no
\* two eligible accounts share a variable, also when they have the same
\* name, and the investments are, in order, the eligible accounts of solved
\* amount above 1e-6, each with its own amount.
C17_OneVariablePerAccount ==
    /\ model # None =>
          /\ Cardinality(model[1].investments) = Len(eligible_accounts)
          /\ \A i \in DOMAIN eligible_accounts : \A j \in DOMAIN eligible_accounts :
                i # j => VariableOf(eligible_accounts[i]) # VariableOf(eligible_accounts[j])
    /\ OptimalBranch =>
          LET funded == SelectSeq(eligible_accounts,
                                  LAMBDA acc : SolvedAmounts[VariableOf(acc)] > 0)
          IN  /\ Len(investments) = Len(funded)
              /\ \A i \in DOMAIN investments :
                    /\ investments[i].account_name = funded[i].name
                    /\ 2 * Abs(investments[i].amount - SolvedAmounts[VariableOf(funded[i])])
                          <= TicksPerPenny

\* C16: on the Optimal branch of a call whose total_investment is the sum of
\* its goal amounts, every eligible account whose term is the horizon of no
\* goal has solved amount 0 and no investment, and every investment has the
\* term of the horizon of some goal.
C16_UnmatchedAccountsUnused ==
    (OptimalBranch /\ input_data.total_investment = GoalTotal(input_data.savings_goals)) =>
        /\ \A i \in DOMAIN eligible_accounts :
              eligible_accounts[i].term \notin GoalHorizons =>
                  /\ ReturnedAllocation[i] = 0
                  /\ \A k \in DOMAIN investments :
                        ~ /\ investments[k].account_name = eligible_accounts[i].name
                          /\ investments[k].term = TermOfHorizon(eligible_accounts[i].term)
        /\ \A k \in DOMAIN investments :
              \E h \in GoalHorizons : investments[k].term = TermOfHorizon(h)

\* an Optimal branch with the whole total in goals, an eligible account of
\* unmatched term left out of two or more accounts
C16_Witness ==
    /\ OptimalBranch
    /\ input_data.total_investment = GoalTotal(input_data.savings_goals)
    /\ investments # << >>
    /\ Len(eligible_accounts) >= 2
    /\ \E i \in DOMAIN eligible_accounts : eligible_accounts[i].term \notin GoalHorizons

\* C18: the interest figures handed to the summary are those of the rounded
\* investments list, the tax policy and total_investment alone: with gross
\* the sum of amount * rate over the list and non_isa_gross that sum over the
\* non-ISA investments, tax_due = max(0, non_isa_gross - allowance) *
\* tax_rate, net = gross - tax_due, net_effective_aer = net /
\* total_investment * 100 (0 when total_investment is 0), each rounded as
\* lines 177-181 round it.
C18_SummaryFromRoundedList ==
    OptimalBranch =>
        LET gross == SumSeq([ i \in DOMAIN investments |->
                                investments[i].amount * investments[i].aer ])
            non_isa_gross ==
                SumSeq([ i \in DOMAIN investments |->
                           IF investments[i].is_isa THEN 0
                           ELSE investments[i].amount * investments[i].aer ])
            tax == Max2(0, non_isa_gross - total_tax_free_allowance * 100)
                     * tax_info.tax_rate
            net == 20 * gross - tax
            summary == SummaryArguments(investments)
        IN  /\ summary.gross_annual_interest = RoundHalfEven(gross, 100 * TicksPerPenny)
            /\ summary.tax_due = RoundHalfEven(tax, 20 * 100 * TicksPerPenny)
            /\ summary.net_annual_interest = RoundHalfEven(net, 20 * 100 * TicksPerPenny)
            /\ summary.net_effective_aer =
                  IF input_data.total_investment > 0
                  THEN MulDivRound(net, AerScale, input_data.total_investment)
                  ELSE 0

\* the non-ISA interest of the solved amounts and the allowance, tick-percents
SolvedNonIsaInterest == InterestOver(SolvedAmounts, non_isa_accounts)
AllowanceInterest == total_tax_free_allowance * PercentDen

\* what rounding every non-ISA amount of the list to the penny can move the
\* tax by, doubled: half a penny of amount at the rate of each investment
TaxRoundingSlack ==
    tax_info.tax_rate
      * SumSeq([ i \in DOMAIN investments |->
                   IF investments[i].is_isa THEN 0
                   ELSE investments[i].aer * TicksPerPenny ])

====
